---- MODULE Spec2Model ----
(***************************************************************************)
(* Model of rbmstable-parser: lib.rs `parse`, parser.rs `parse_from_json`  *)
(* and modal.rs `lift_serialize` / `unlift_deserialize`.                   *)
(*                                                                         *)
(* A Rust String is a sequence of one-character strings (all text of the   *)
(* model is ASCII, so a byte offset is a character offset).  Option<T> is  *)
(* <<>> (None) or <<x>> (Some(x)).  A blocking fetch is a step of the      *)
(* caller that issues the request, followed by a step that receives the    *)
(* outcome the network chose.                                              *)
(***************************************************************************)
EXTENDS Integers, Sequences, FiniteSets, TLC

\* ------------------------------------------------------------------ bounds
\* Longest content document (number of chart entries) a resolution receives.
MaxContents == 3
\* Longest content document the level derivation is run on by itself.
MaxLevels == 4
\* Most outer groups of a wire `course` value, and most courses in a group.
MaxGroups == 2
MaxGroupLen == 2

\* ----------------------------------------------------------------- strings
None == <<>>
Some(x) == <<x>>

\* Printable ASCII, in byte order: AsciiTable[i] is the character of byte 31 + i
\* (byte 96, the grave accent, cannot be written in a string here and is
\* held by a name no character equals).
AsciiTable == <<" ","!","\"","#","$","%","&","'","(",")","*","+",",","-",".","/","0","1","2","3","4","5","6","7","8","9",":",";","<","=",">","?","@","A","B","C","D","E","F","G","H","I","J","K","L","M","N","O","P","Q","R","S","T","U","V","W","X","Y","Z","[","\\","]","^","_","GRAVE","a","b","c","d","e","f","g","h","i","j","k","l","m","n","o","p","q","r","s","t","u","v","w","x","y","z","{","|","}","~">>

\* The byte of a character (str compares bytewise).
Byte(c) == 31 + (CHOOSE i \in 1..Len(AsciiTable) : AsciiTable[i] = c)

\* str::starts_with
StartsWith(s, p) == Len(s) >= Len(p) /\ SubSeq(s, 1, Len(p)) = p

\* str::ends_with
EndsWith(s, p) == Len(s) >= Len(p) /\ SubSeq(s, Len(s) - Len(p) + 1, Len(s)) = p

\* The 0-based offsets at which pat occurs in s.
Occurrences(s, pat) ==
  { i \in 0..(Len(s) - Len(pat)) : SubSeq(s, i + 1, i + Len(pat)) = pat }

\* str::find: the first offset of pat, or None.
Find(s, pat) ==
  IF Occurrences(s, pat) = {} THEN None
  ELSE Some(CHOOSE i \in Occurrences(s, pat) : \A j \in Occurrences(s, pat) : i <= j)

\* str::rfind: the last offset of pat, or None.
RFind(s, pat) ==
  IF Occurrences(s, pat) = {} THEN None
  ELSE Some(CHOOSE i \in Occurrences(s, pat) : \A j \in Occurrences(s, pat) : i >= j)

\* str::contains
Contains(s, pat) == Occurrences(s, pat) # {}

\* Whether &s[l..r] is in bounds (else the index panics).
SliceOk(s, l, r) == l <= r /\ r <= Len(s)

\* &s[l..r], 0-based and half-open.
Slice(s, l, r) == SubSeq(s, l + 1, r)

\* Ord::cmp of two integers.
IntCmp(a, b) == IF a < b THEN "Less" ELSE IF a > b THEN "Greater" ELSE "Equal"

\* Ord::cmp of two strings: bytewise lexicographic, a proper prefix is less.
RECURSIVE StrCmp(_, _)
StrCmp(a, b) ==
  IF a = <<>> /\ b = <<>> THEN "Equal"
  ELSE IF a = <<>> THEN "Less"
  ELSE IF b = <<>> THEN "Greater"
  ELSE IF Head(a) = Head(b) THEN StrCmp(Tail(a), Tail(b))
  ELSE IntCmp(Byte(Head(a)), Byte(Head(b)))

I32Max == 2147483647
I32Min == (0 - I32Max) - 1

Digits == <<"0","1","2","3","4","5","6","7","8","9">>
IsDigit(c) == \E i \in 1..10 : Digits[i] = c
DigitVal(c) == (CHOOSE i \in 1..10 : Digits[i] = c) - 1

\* Accumulates the digits of ds onto acc as i32 does, with checked arithmetic:
\* upwards for a positive number, downwards for a negative one.
RECURSIVE ParseDigits(_, _, _)
ParseDigits(ds, acc, positive) ==
  IF ds = <<>> THEN Some(acc)
  ELSE IF ~IsDigit(Head(ds)) THEN None
  ELSE LET d == DigitVal(Head(ds)) IN
    IF positive
    THEN IF acc > I32Max \div 10 \/ acc * 10 > I32Max - d THEN None
         ELSE ParseDigits(Tail(ds), acc * 10 + d, positive)
    ELSE IF acc < 0 - (I32Max \div 10) \/ acc * 10 < I32Min + d THEN None
         ELSE ParseDigits(Tail(ds), acc * 10 - d, positive)

\* str::parse::<i32>().ok(): an optional sign, then at least one digit, in range.
ParseI32(s) ==
  IF s = <<>> THEN None
  ELSE IF Head(s) = "+" \/ Head(s) = "-"
  THEN IF Tail(s) = <<>> THEN None ELSE ParseDigits(Tail(s), 0, Head(s) = "+")
  ELSE ParseDigits(s, 0, TRUE)

\* -------------------------------------------------------------- data model
\* ParseError variants.
UnSupportedURLFormat == "UnSupportedURLFormat"
CorruptedHeaderData == "CorruptedHeaderData"
SerdeError == "SerdeError"
ReqwestError == "ReqwestError"
IOError == "IOError"

\* A DifficultTable, with the fields the resolution reads or writes (the other
\* optional fields are copied from the header document and never read).
Table(name, symbol, data_url, courses) ==
  [name |-> name, symbol |-> symbol, data_url |-> data_url,
   contents |-> <<>>, levels |-> <<>>, courses |-> courses]

NoTable == Table(<<>>, <<>>, <<>>, <<>>)

\* What a call returned: nothing yet, Ok(table), Err(err) with the detail of a
\* CorruptedHeaderData (msg, and arg for the formatted url), or a panic that
\* unwound out of the call.
NoResult == [kind |-> "none", err |-> "", msg |-> "", arg |-> <<>>, table |-> NoTable]
Ok(t) == [kind |-> "ok", err |-> "", msg |-> "", arg |-> <<>>, table |-> t]
Err(e, m, a) == [kind |-> "err", err |-> e, msg |-> m, arg |-> a, table |-> NoTable]
Panic(m) == [kind |-> "panic", err |-> "", msg |-> m, arg |-> <<>>, table |-> NoTable]

\* A JSON object read as a header: each key absent (None) or present.
JsonHeader(name, symbol, data_url, course) ==
  [name |-> name, symbol |-> symbol, data_url |-> data_url, course |-> course]

NoObj == JsonHeader(None, None, None, None)

\* The text of a response body, by what it is: the empty string, text that is
\* not JSON, a JSON object, a JSON array of objects, or an HTML page (lines).
EmptyBody == [kind |-> "empty", obj |-> NoObj, arr |-> <<>>, lines |-> <<>>]
Garbage == [kind |-> "garbage", obj |-> NoObj, arr |-> <<>>, lines |-> <<>>]
ObjectDoc(o) == [kind |-> "object", obj |-> o, arr |-> <<>>, lines |-> <<>>]
ArrayDoc(a) == [kind |-> "array", obj |-> NoObj, arr |-> a, lines |-> <<>>]
HtmlPage(ls) == [kind |-> "html", obj |-> NoObj, arr |-> <<>>, lines |-> ls]

\* The outcome of one blocking fetch: get() failed, read_to_string() failed, or
\* the body was read.
ReqwestFailed == [kind |-> "reqwest_err", body |-> EmptyBody]
ReadFailed == [kind |-> "io_err", body |-> EmptyBody]
Fetched(b) == [kind |-> "body", body |-> b]
NoResponse == [kind |-> "none", body |-> EmptyBody]

\* -------------------------------------------------------------- modal.rs
RECURSIVE Flatten(_)
Flatten(groups) ==
  IF groups = <<>> THEN <<>> ELSE Head(groups) \o Flatten(Tail(groups))

unlift_first_group(lifted_courses) ==
  IF lifted_courses = <<>> THEN <<>> ELSE Head(lifted_courses)

\* unlift_deserialize: Vec<Vec<Course>> flattened.
unlift_deserialize(lifted_courses) == Flatten(lifted_courses)

\* lift_serialize: vec![x.clone()]
lift_serialize(x) == <<x>>

\* The `course` field of a DifficultTable read from a JSON object: `default`
\* when the key is absent, unlift_deserialize otherwise.
DeserializeCourses(course) ==
  IF course = None THEN <<>> ELSE unlift_deserialize(course[1])

from_slice_header_lenient(body) ==
  IF body.kind # "object"
  THEN [ok |-> FALSE, err |-> CorruptedHeaderData, msg |-> "not a json", table |-> NoTable]
  ELSE [ok |-> TRUE, err |-> "", msg |-> "",
        table |-> Table(IF body.obj.name = None THEN <<>> ELSE body.obj.name[1],
                        IF body.obj.symbol = None THEN <<>> ELSE body.obj.symbol[1],
                        IF body.obj.data_url = None THEN <<>> ELSE body.obj.data_url[1],
                        DeserializeCourses(body.obj.course))]

\* serde_json::from_slice::<DifficultTable>: the text must be a JSON object
\* (an array is read positionally and its first element, an object, is no
\* String); `name` and `symbol` have no default, `data_url` and `course` have.
from_slice_header(body) ==
  IF body.kind # "object"
  THEN [ok |-> FALSE, err |-> SerdeError, msg |-> "expected a header object", table |-> NoTable]
  ELSE IF body.obj.name = None
  THEN [ok |-> FALSE, err |-> SerdeError, msg |-> "missing field name", table |-> NoTable]
  ELSE IF body.obj.symbol = None
  THEN [ok |-> FALSE, err |-> SerdeError, msg |-> "missing field symbol", table |-> NoTable]
  ELSE [ok |-> TRUE, err |-> "", msg |-> "",
        table |-> Table(body.obj.name[1], body.obj.symbol[1],
                        IF body.obj.data_url = None THEN <<>> ELSE body.obj.data_url[1],
                        DeserializeCourses(body.obj.course))]

\* serde_json::from_slice::<Vec<DifficultTableElement>>: the text must be a
\* JSON array of objects that each hold the required key `level`.
from_slice_contents(body) ==
  IF body.kind # "array" \/ \E i \in 1..Len(body.arr) : body.arr[i].level = None
  THEN [ok |-> FALSE, contents |-> <<>>]
  ELSE [ok |-> TRUE,
        contents |-> [i \in 1..Len(body.arr) |-> [level |-> body.arr[i].level[1]]]]

\* ------------------------------------------------------------- parser.rs
\* Itertools::unique: the first occurrence of each element, in order.
RECURSIVE UniqueFrom(_, _)
UniqueFrom(s, seen) ==
  IF s = <<>> THEN <<>>
  ELSE IF Head(s) \in seen THEN UniqueFrom(Tail(s), seen)
  ELSE <<Head(s)>> \o UniqueFrom(Tail(s), seen \cup {Head(s)})

NoDedup(s) == s

Unique(s) == UniqueFrom(s, {})

StringCmpOnly(lhs, rhs) == StrCmp(lhs, rhs)

\* The closure handed to sorted_by.
LevelCmp(lhs, rhs) ==
  LET ilhs == ParseI32(lhs)
      irhs == ParseI32(rhs)
  IN IF ilhs = None \/ irhs = None THEN StrCmp(lhs, rhs)
     ELSE IntCmp(ilhs[1], irhs[1])

\* One insertion of the stable sort: x moves left past every element it is
\* less than, and stops at the first it is not less than.
RECURSIVE InsertTail(_, _)
InsertTail(sorted, x) ==
  IF sorted = <<>> THEN <<x>>
  ELSE IF LevelCmp(x, sorted[Len(sorted)]) = "Less"
  THEN Append(InsertTail(SubSeq(sorted, 1, Len(sorted) - 1), x), sorted[Len(sorted)])
  ELSE Append(sorted, x)

\* Itertools::sorted_by, which is Vec::sort_by: the standard library's stable
\* sort, an insertion sort on slices of at most 20 elements.
RECURSIVE SortedBy(_)
SortedBy(s) ==
  IF s = <<>> THEN <<>>
  ELSE InsertTail(SortedBy(SubSeq(s, 1, Len(s) - 1)), s[Len(s)])

\* header.levels, from header.contents.
Levels(contents) ==
  SortedBy(Unique([i \in 1..Len(contents) |-> contents[i].level]))

HTTP == <<"h","t","t","p">>
SLASH == <<"/">>

AlwaysPushSlash(prefix_url) == prefix_url \o SLASH

\* The prefix, with a "/" pushed when it does not end with one.
PrefixWithSlash(prefix_url) ==
  IF ~EndsWith(prefix_url, SLASH) THEN prefix_url \o SLASH ELSE prefix_url

\* The data_url the content is fetched from, or None when it is relative and
\* there is no prefix.
ResolveDataUrl(prefix_url, data_url) ==
  IF ~StartsWith(data_url, HTTP)
  THEN IF prefix_url = None THEN None
       ELSE Some(PrefixWithSlash(prefix_url[1]) \o data_url)
  ELSE Some(data_url)

\* ----------------------------------------------------------------- lib.rs
JSON_SUFFIX == <<".","j","s","o","n">>
HTM_SUFFIX == <<".","h","t","m">>
HTML_SUFFIX == <<".","h","t","m","l">>
META_MARKER == <<"<","m","e","t","a"," ","n","a","m","e","=","\"","b","m","s","t","a","b","l","e","\"">>
CONTENT_EQ == <<"c","o","n","t","e","n","t","=">>

PrefixOnly(u) == StartsWith(u, HTTP)

\* The two early returns of parse: the url is accepted when neither is taken.
IsSupported(u) ==
  /\ StartsWith(u, HTTP)
  /\ (EndsWith(u, JSON_SUFFIX) \/ EndsWith(u, HTM_SUFFIX) \/ EndsWith(u, HTML_SUFFIX))

\* url[0..=url.rfind('/').unwrap()]: None where the unwrap panics.
UrlPrefix(u) ==
  IF RFind(u, SLASH) = None THEN None ELSE Some(Slice(u, 0, RFind(u, SLASH)[1] + 1))

ExtractErr(m) == [kind |-> "err", msg |-> m, prefix |-> <<>>, header_url |-> <<>>]
ExtractPanic(m) == [kind |-> "panic", msg |-> m, prefix |-> <<>>, header_url |-> <<>>]

\* The Html branch of parse from the scan for the meta line to the header url,
\* in the order of the code: the two typed errors, the offsets l and r, the
\* unwrap of rfind, the slice.
ExtractHeaderUrl(u, body) ==
  LET hits == { i \in 1..Len(body.lines) : Contains(body.lines[i], META_MARKER) }
  IN IF hits = {} THEN ExtractErr("Cannot fetch meta line")
     ELSE LET meta_line == body.lines[CHOOSE i \in hits : \A j \in hits : i <= j]
              pos == Find(meta_line, CONTENT_EQ)
          IN IF pos = None THEN ExtractErr("Cannot parse meta line")
             ELSE IF Len(meta_line) < 4
             THEN ExtractPanic("attempt to subtract with overflow")
             ELSE LET l == pos[1] + Len(CONTENT_EQ) + 1
                      r == Len(meta_line) - 4
                  IN IF UrlPrefix(u) = None
                     THEN ExtractPanic("called Option::unwrap() on a None value")
                     ELSE IF ~SliceOk(meta_line, l, r)
                     THEN ExtractPanic("slice index starts after its end")
                     ELSE [kind |-> "fetch", msg |-> "", prefix |-> UrlPrefix(u)[1],
                           header_url |-> UrlPrefix(u)[1] \o Slice(meta_line, l, r)]

\* ------------------------------------------------------------------ inputs
\* Entry urls handed to parse.
U_FTP == <<"f","t","p",":","/","/","s",".","j","s","o","n">>
U_NOSUFFIX == <<"h","t","t","p",":","/","/","x","/","y","/","h">>
U_JSON == <<"h","t","t","p","s",":","/","/","x","/","y","/","h",".","j","s","o","n">>
U_JSON2 == <<"h","t","t","p","s",":","/","/","x","/","y","/","/","h",".","j","s","o","n">>
U_HTML == <<"h","t","t","p",":","/","/","x","/","y","/","t",".","h","t","m","l">>
U_HTM == <<"h","t","t","p",":","/","/","x","/","t",".","h","t","m">>
U_NOSLASH_JSON == <<"h","t","t","p",":","x",".","j","s","o","n">>
U_NOSLASH_HTML == <<"h","t","t","p",":","x",".","h","t","m","l">>
Urls ==
  {U_FTP, U_NOSUFFIX, U_JSON, U_JSON2, U_HTML, U_HTM, U_NOSLASH_JSON, U_NOSLASH_HTML}

\* Prefixes handed to parse_from_json when it is called directly.
BASE_SLASH == <<"h","t","t","p","s",":","/","/","x","/","y","/">>
BASE_BARE == <<"h","t","t","p","s",":","/","/","x","/","y">>
BASE_SLASHES == <<"h","t","t","p","s",":","/","/","x","/","y","/","/">>
Prefixes == {None, Some(BASE_SLASH), Some(BASE_BARE), Some(BASE_SLASHES)}

\* Header documents.
REL_DATA_URL == <<"z",".","j","s","o","n">>
ABS_DATA_URL == <<"h","t","t","p",":","/","/","d","/","c",".","j","s","o","n">>
NAME == <<"n">>
SYMBOL == <<"s">>
WireSample == << <<"courseA">>, <<"courseB">> >>
HeaderObjs ==
  { JsonHeader(n, s, d, c) :
      n \in {None, Some(<<>>), Some(NAME)},
      s \in {None, Some(<<>>), Some(SYMBOL)},
      d \in {None, Some(<<>>), Some(REL_DATA_URL), Some(ABS_DATA_URL)},
      c \in {None, Some(WireSample)} }

\* Lines of an HTML page.
L_PLAIN == <<"<","h","t","m","l",">">>
L_SPACE_SLASH == <<"<","m","e","t","a"," ","n","a","m","e","=","\"","b","m","s","t","a","b","l","e","\""," ","c","o","n","t","e","n","t","=","\"","h",".","j","s","o","n","\""," ","/",">">>
L_SLASH == <<"<","m","e","t","a"," ","n","a","m","e","=","\"","b","m","s","t","a","b","l","e","\""," ","c","o","n","t","e","n","t","=","\"","h",".","j","s","o","n","\"","/",">">>
L_BARE == <<"<","m","e","t","a"," ","n","a","m","e","=","\"","b","m","s","t","a","b","l","e","\""," ","c","o","n","t","e","n","t","=","\"","h",".","j","s","o","n","\"",">">>
L_ABSOLUTE == <<"<","m","e","t","a"," ","n","a","m","e","=","\"","b","m","s","t","a","b","l","e","\""," ","c","o","n","t","e","n","t","=","\"","h","t","t","p",":","/","/","a","/","h",".","j","s","o","n","\""," ","/",">">>
L_EMPTY_VALUE == <<"<","m","e","t","a"," ","n","a","m","e","=","\"","b","m","s","t","a","b","l","e","\""," ","c","o","n","t","e","n","t","=","\"","\"",">">>
L_NO_CONTENT == <<"<","m","e","t","a"," ","n","a","m","e","=","\"","b","m","s","t","a","b","l","e","\"",">">>
Pages ==
  { HtmlPage(<<L_PLAIN>>) } \cup
  { HtmlPage(<<L_PLAIN, l>>) :
      l \in {L_SPACE_SLASH, L_SLASH, L_BARE, L_ABSOLUTE, L_EMPTY_VALUE, L_NO_CONTENT} }

\* Level labels of chart entries.
Labels == { <<"1">>, <<"2">>, <<"3">>, <<"1","0">>, <<"-","1">>, <<"1","a">>, <<"2","2","0","0","0","0","0","0","0","0">> }

RECURSIVE SeqsUpTo(_, _)
SeqsUpTo(S, n) ==
  IF n = 0 THEN { <<>> }
  ELSE LET shorter == SeqsUpTo(S, n - 1)
       IN shorter \cup { Append(s, x) : s \in { t \in shorter : Len(t) = n - 1 }, x \in S }

\* Content documents: arrays of entries, one entry without `level`, and the
\* wrong shapes.
ContentBodiesUpTo(n) ==
  { ArrayDoc([i \in 1..Len(ls) |-> [level |-> Some(ls[i])]]) : ls \in SeqsUpTo(Labels, n) }
  \cup { ArrayDoc(<<[level |-> None]>>), ObjectDoc(NoObj), Garbage, EmptyBody }

ContentBodies == ContentBodiesUpTo(MaxContents)
LevelBodies == ContentBodiesUpTo(MaxLevels)

HeaderBodies ==
  { ObjectDoc(o) : o \in HeaderObjs } \cup { ArrayDoc(<<>>), Garbage, EmptyBody }

EntryBodies(u) ==
  IF EndsWith(u, JSON_SUFFIX) THEN HeaderBodies ELSE Pages \cup { Garbage, EmptyBody }

Outcomes(bodies) == { ReqwestFailed, ReadFailed } \cup { Fetched(b) : b \in bodies }

\* Wire values of the `course` key: absent, or an array of arrays of courses.
Courses == {"courseA", "courseB"}
WireInputs ==
  { None } \cup { Some(w) : w \in SeqsUpTo(SeqsUpTo(Courses, MaxGroupLen), MaxGroups) }

\* ------------------------------------------------------------------- state
VARIABLES
  pc,         \* where the call is: "idle", blocked in the fetch of the "entry"
              \* url, of the "header" url or of the "content" url, or "done"
  called,     \* the function that was called: "none", "parse", "parse_from_json"
  url,        \* parse's `url`
  prefix_url, \* parse_from_json's `prefix_url`
  data,       \* parse_from_json's `data`, once it has been called
  header,     \* parse_from_json's `header`
  fetched,    \* the urls handed to reqwest::blocking::get, in order
  resp,       \* the outcome of the last fetch
  result,     \* what the call returned
  cstep,      \* the course value's position: "none", "wire", "flat", "emitted", "back"
  wire,       \* the `course` value on the wire
  courses     \* DifficultTable::courses

vars == <<pc, called, url, prefix_url, data, header, fetched, resp, result,
          cstep, wire, courses>>

courseVars == <<cstep, wire, courses>>
callVars == <<pc, called, url, prefix_url, data, header, fetched, resp, result>>

NoData == [kind |-> "none", obj |-> NoObj, arr |-> <<>>, lines |-> <<>>]

InitCall ==
  /\ pc = "idle"
  /\ called = "none"
  /\ url = <<>>
  /\ prefix_url = None
  /\ data = NoData
  /\ header = NoTable
  /\ fetched = <<>>
  /\ resp = NoResponse
  /\ result = NoResult

Init ==
  /\ InitCall
  /\ cstep = "none"
  /\ wire = None
  /\ courses = <<>>

\* The call returns r.
Return(r) ==
  /\ result' = r
  /\ pc' = "done"

\* parse_from_json(prefix, d) up to its fetch of the content: the header is
\* deserialized and validated, its data_url resolved, and the request issued.
ParseFromJsonHead(prefix, d) ==
  /\ prefix_url' = prefix
  /\ data' = d
  /\ LET h == from_slice_header(d)
     IN IF ~h.ok
        THEN Return(Err(h.err, h.msg, <<>>)) /\ UNCHANGED <<header, fetched>>
        ELSE IF h.table.name = <<>>
        THEN /\ Return(Err(CorruptedHeaderData, "Difficult table name cannot be empty", <<>>))
             /\ UNCHANGED <<header, fetched>>
        ELSE IF h.table.symbol = <<>>
        THEN /\ Return(Err(CorruptedHeaderData, "Difficult table symbol cannot be empty", <<>>))
             /\ UNCHANGED <<header, fetched>>
        ELSE IF h.table.data_url = <<>>
        THEN /\ Return(Err(CorruptedHeaderData, "Difficult table data_url cannot be empty", <<>>))
             /\ UNCHANGED <<header, fetched>>
        ELSE IF ResolveDataUrl(prefix, h.table.data_url) = None
        THEN /\ Return(Err(CorruptedHeaderData,
                           "data_url is a relative path while no prefix url is provided", <<>>))
             /\ UNCHANGED <<header, fetched>>
        ELSE /\ header' = [h.table EXCEPT !.data_url = ResolveDataUrl(prefix, @)[1]]
             /\ fetched' = Append(fetched, ResolveDataUrl(prefix, h.table.data_url)[1])
             /\ pc' = "content"
             /\ UNCHANGED result

\* The `?` on a failed fetch: From<reqwest::Error> and From<io::Error>.
FetchError(r) ==
  IF r.kind = "reqwest_err" THEN Err(ReqwestError, "", <<>>) ELSE Err(IOError, "", <<>>)

\* parse(u) up to its first fetch.
Parse(u) ==
  /\ pc = "idle"
  /\ called' = "parse"
  /\ url' = u
  /\ IF ~IsSupported(u)
     THEN Return(Err(UnSupportedURLFormat, "", <<>>)) /\ UNCHANGED fetched
     ELSE fetched' = Append(fetched, u) /\ pc' = "entry" /\ UNCHANGED result
  /\ UNCHANGED <<prefix_url, data, header, resp, courseVars>>

\* parse from the response to the entry url to its return or its next fetch.
EntryResponse(r) ==
  /\ pc = "entry"
  /\ resp' = r
  /\ IF r.kind # "body"
     THEN Return(FetchError(r)) /\ UNCHANGED <<prefix_url, data, header, fetched>>
     ELSE IF r.body.kind = "empty"
     THEN /\ Return(Err(CorruptedHeaderData, "Get nothing from", url))
          /\ UNCHANGED <<prefix_url, data, header, fetched>>
     ELSE IF EndsWith(url, JSON_SUFFIX)
     THEN IF UrlPrefix(url) = None
          THEN /\ Return(Panic("called Option::unwrap() on a None value"))
               /\ UNCHANGED <<prefix_url, data, header, fetched>>
          ELSE ParseFromJsonHead(Some(UrlPrefix(url)[1]), r.body)
     ELSE LET x == ExtractHeaderUrl(url, r.body)
          IN IF x.kind = "err"
             THEN /\ Return(Err(CorruptedHeaderData, x.msg, <<>>))
                  /\ UNCHANGED <<prefix_url, data, header, fetched>>
             ELSE IF x.kind = "panic"
             THEN /\ Return(Panic(x.msg))
                  /\ UNCHANGED <<prefix_url, data, header, fetched>>
             ELSE /\ fetched' = Append(fetched, x.header_url)
                  /\ pc' = "header"
                  /\ UNCHANGED <<prefix_url, data, header, result>>
  /\ UNCHANGED <<called, url, courseVars>>

\* The Html branch of parse from the response to the header url on.
HeaderResponse(r) ==
  /\ pc = "header"
  /\ resp' = r
  /\ IF r.kind # "body"
     THEN Return(FetchError(r)) /\ UNCHANGED <<prefix_url, data, header, fetched>>
     ELSE ParseFromJsonHead(Some(UrlPrefix(url)[1]), r.body)
  /\ UNCHANGED <<called, url, courseVars>>

\* parse_from_json called on its own, as the tests of parser.rs call it.
ParseFromJson(prefix, d) ==
  /\ pc = "idle"
  /\ called' = "parse_from_json"
  /\ ParseFromJsonHead(prefix, d)
  /\ UNCHANGED <<url, resp, courseVars>>

\* parse_from_json from the response to the data_url to its return.
ContentResponse(r) ==
  /\ pc = "content"
  /\ resp' = r
  /\ IF r.kind # "body"
     THEN Return(FetchError(r))
     ELSE LET c == from_slice_contents(r.body)
          IN IF ~c.ok THEN Return(Err(SerdeError, "expected an array of entries", <<>>))
             ELSE Return(Ok([header EXCEPT !.contents = c.contents,
                                           !.levels = Levels(c.contents)]))
  /\ UNCHANGED <<called, url, prefix_url, data, header, fetched, courseVars>>

\* What the network may answer to the request in flight.
Answers ==
  IF pc = "entry" THEN Outcomes(EntryBodies(url))
  ELSE IF pc = "header" THEN Outcomes(HeaderBodies)
  ELSE IF pc = "content" THEN Outcomes(ContentBodies)
  ELSE {}

Next ==
  \/ \E u \in Urls : Parse(u)
  \/ \E p \in Prefixes, d \in HeaderBodies : ParseFromJson(p, d)
  \/ \E r \in Answers : EntryResponse(r)
  \/ \E r \in Answers : HeaderResponse(r)
  \/ \E r \in Answers : ContentResponse(r)

Spec == Init /\ [][Next]_vars

\* --------------------------------------- the level derivation on its own
\* parse_from_json(None, header) blocked in the fetch of an absolute data_url,
\* as in test_basic_header_deserialize.
BasicHeader == JsonHeader(Some(NAME), Some(SYMBOL), Some(ABS_DATA_URL), None)

InitLevels ==
  /\ pc = "content"
  /\ called = "parse_from_json"
  /\ url = <<>>
  /\ prefix_url = None
  /\ data = ObjectDoc(BasicHeader)
  /\ header = Table(NAME, SYMBOL, ABS_DATA_URL, <<>>)
  /\ fetched = <<ABS_DATA_URL>>
  /\ resp = NoResponse
  /\ result = NoResult
  /\ cstep = "none"
  /\ wire = None
  /\ courses = <<>>

NextLevels == \E r \in Outcomes(LevelBodies) : ContentResponse(r)

SpecLevels == InitLevels /\ [][NextLevels]_vars

\* ------------------------------------------- the course field on its own
InitCourse ==
  /\ InitCall
  /\ cstep = "wire"
  /\ wire \in WireInputs
  /\ courses = <<>>

\* The `course` key is deserialized into DifficultTable::courses.
Deserialize ==
  /\ cstep \in {"wire", "emitted"}
  /\ courses' = DeserializeCourses(wire)
  /\ cstep' = IF cstep = "wire" THEN "flat" ELSE "back"
  /\ UNCHANGED <<wire, callVars>>

\* DifficultTable::courses is serialized to the `course` key.
Serialize ==
  /\ cstep = "flat"
  /\ wire' = Some(lift_serialize(courses))
  /\ cstep' = "emitted"
  /\ UNCHANGED <<courses, callVars>>

NextCourse == Deserialize \/ Serialize

SpecCourse == InitCourse /\ [][NextCourse]_vars

\* ------------------------------------------------------------------ claims
\* The entry url was rejected by the classifier's contract: it does not start
\* with the HTTP prefix, or ends with none of the three suffixes.
Rejected(u) ==
  \/ SubSeq(u, 1, 4) # HTTP
  \/ /\ SubSeq(u, Len(u) - 4, Len(u)) # JSON_SUFFIX
     /\ SubSeq(u, Len(u) - 3, Len(u)) # HTM_SUFFIX
     /\ SubSeq(u, Len(u) - 4, Len(u)) # HTML_SUFFIX

\* C1: whenever parse was called with a url that does not start with the HTTP
\* prefix or does not end with .json, .htm or .html, the call has returned
\* UnSupportedURLFormat and no url has been fetched.
C1_UnsupportedBeforeFetch ==
  (called = "parse" /\ Rejected(url)) =>
    /\ pc = "done"
    /\ result = Err(UnSupportedURLFormat, "", <<>>)
    /\ fetched = <<>>

C1_Witness ==
  /\ called = "parse"
  /\ url = U_NOSUFFIX
  /\ result.kind = "err"
  /\ result.err = UnSupportedURLFormat

\* A required key of a header object is absent, or present and empty.
Deficient(v) == v = None \/ v = Some(<<>>)

\* The only deficient key among name, symbol and data_url, when there is one.
OnlyDeficient(o) ==
  IF Deficient(o.name) /\ ~Deficient(o.symbol) /\ ~Deficient(o.data_url) THEN "name"
  ELSE IF ~Deficient(o.name) /\ Deficient(o.symbol) /\ ~Deficient(o.data_url) THEN "symbol"
  ELSE IF ~Deficient(o.name) /\ ~Deficient(o.symbol) /\ Deficient(o.data_url) THEN "data_url"
  ELSE "none"

FieldMessage(f) ==
  IF f = "name" THEN "Difficult table name cannot be empty"
  ELSE IF f = "symbol" THEN "Difficult table symbol cannot be empty"
  ELSE "Difficult table data_url cannot be empty"

\* The fetches a call has issued before parse_from_json fetches the content.
FetchesBeforeContent ==
  IF called = "parse_from_json" THEN 0
  ELSE IF EndsWith(url, JSON_SUFFIX) THEN 1 ELSE 2

\* C2: whenever parse_from_json was handed a header object in which exactly
\* one of name, symbol, data_url is absent or empty, it has returned
\* CorruptedHeaderData with the message of that key, and the content document
\* was not fetched.
C2_DeficientFieldIsCorruptedHeader ==
  (data.kind = "object" /\ OnlyDeficient(data.obj) # "none") =>
    /\ pc = "done"
    /\ result = Err(CorruptedHeaderData, FieldMessage(OnlyDeficient(data.obj)), <<>>)
    /\ Len(fetched) = FetchesBeforeContent

\* The header object handed to parse_from_json passed the three checks.
HeaderValid ==
  /\ data.kind = "object"
  /\ ~Deficient(data.obj.name)
  /\ ~Deficient(data.obj.symbol)
  /\ ~Deficient(data.obj.data_url)

RECURSIVE StripSlashes(_)
StripSlashes(s) ==
  IF s # <<>> /\ s[Len(s)] = "/" THEN StripSlashes(SubSeq(s, 1, Len(s) - 1)) ELSE s

\* The base, ending with exactly one "/".
ExactlyOneSlash(base) == Append(StripSlashes(base), "/")

\* The base, with a "/" added only when its last character is not one.
SlashIfMissing(base) == IF base[Len(base)] = "/" THEN base ELSE Append(base, "/")

\* The data_url of a validated header is `expected`: it is the url of the
\* content fetch and the data_url of the returned table.
DataUrlIs(expected) ==
  /\ pc \in {"content", "done"}
  /\ Len(fetched) = FetchesBeforeContent + 1
  /\ fetched[Len(fetched)] = expected
  /\ header.data_url = expected
  /\ (result.kind = "ok" => result.table.data_url = expected)

NoPrefixError ==
  /\ pc = "done"
  /\ result = Err(CorruptedHeaderData,
                  "data_url is a relative path while no prefix url is provided", <<>>)
  /\ fetched = <<>>

\* C3 as stated: an absolute data_url is used unchanged, a relative one is
\* appended to the base normalized to exactly one trailing "/", and without a
\* base the call fails with CorruptedHeaderData and fetches nothing.
C3_BaseNormalizedToOneSlash ==
  HeaderValid =>
    IF SubSeq(data.obj.data_url[1], 1, 4) = HTTP THEN DataUrlIs(data.obj.data_url[1])
    ELSE IF prefix_url # None
    THEN DataUrlIs(ExactlyOneSlash(prefix_url[1]) \o data.obj.data_url[1])
    ELSE NoPrefixError

\* C3 as amended: the base gets a "/" only when it does not already end with
\* one; slashes it already ends with are kept.
C3_BaseGetsSlashIfMissing ==
  HeaderValid =>
    IF SubSeq(data.obj.data_url[1], 1, 4) = HTTP THEN DataUrlIs(data.obj.data_url[1])
    ELSE IF prefix_url # None
    THEN DataUrlIs(SlashIfMissing(prefix_url[1]) \o data.obj.data_url[1])
    ELSE NoPrefixError

C3_Witness ==
  /\ prefix_url = Some(BASE_BARE)
  /\ data.kind = "object"
  /\ data.obj.data_url = Some(REL_DATA_URL)
  /\ result.kind = "ok"
  /\ result.table.data_url = <<"h","t","t","p","s",":","/","/","x","/","y","/","z",".","j","s","o","n">>

\* An unsigned decimal numeral of any length.
IsNumeral(s) == s # <<>> /\ \A i \in 1..Len(s) : s[i] \in {Digits[k] : k \in 1..10}

RECURSIVE StripZeros(_)
StripZeros(s) == IF Len(s) > 1 /\ s[1] = "0" THEN StripZeros(Tail(s)) ELSE s

\* The value of numeral a is smaller than that of numeral b, at any magnitude.
NumeralLess(a, b) ==
  LET x == StripZeros(a)
      y == StripZeros(b)
  IN \/ Len(x) < Len(y)
     \/ /\ Len(x) = Len(y)
        /\ \E i \in 1..Len(x) :
             /\ SubSeq(x, 1, i - 1) = SubSeq(y, 1, i - 1)
             /\ \E k, m \in 1..10 : k < m /\ Digits[k] = x[i] /\ Digits[m] = y[i]

Range(s) == { s[i] : i \in 1..Len(s) }

\* C5: in every returned table, contents are the entries of the content
\* document in order, levels holds exactly the distinct level strings of
\* contents, each once; so levels is empty exactly when contents is, and a
\* content document with an entry gives non-empty contents and levels.
C5_LevelsAreTheDistinctLevels ==
  result.kind = "ok" =>
    /\ Len(result.table.contents) = Len(resp.body.arr)
    /\ \A i \in 1..Len(resp.body.arr) :
         result.table.contents[i].level = resp.body.arr[i].level[1]
    /\ Range(result.table.levels) = { e.level : e \in Range(result.table.contents) }
    /\ Cardinality(Range(result.table.levels)) = Len(result.table.levels)
    /\ (result.table.levels = <<>> <=> result.table.contents = <<>>)
    /\ (Len(resp.body.arr) >= 1 => result.table.contents # <<>> /\ result.table.levels # <<>>)

C5_Witness ==
  /\ result.kind = "ok"
  /\ Len(result.table.contents) = 3
  /\ Len(result.table.levels) = 2

\* The number of courses in the groups before group g.
RECURSIVE Offset(_, _)
Offset(groups, g) ==
  IF g = 1 THEN 0 ELSE Offset(groups, g - 1) + Len(groups[g - 1])

\* flat is the groups laid end to end, in order.
IsConcatenation(groups, flat) ==
  /\ Len(flat) = Offset(groups, Len(groups) + 1)
  /\ \A g \in 1..Len(groups) : \A i \in 1..Len(groups[g]) :
       flat[Offset(groups, g) + i] = groups[g][i]

\* C6: a wire `course` value deserializes to the concatenation of its inner
\* arrays and an absent one to the empty list; a flat list serializes to one
\* outer array holding one inner array equal to it; deserializing what was
\* serialized gives the flat list back.
C6_CourseRoundTrip ==
  /\ cstep = "flat" =>
       IF wire = None THEN courses = <<>> ELSE IsConcatenation(wire[1], courses)
  /\ cstep = "emitted" =>
       wire # None /\ Len(wire[1]) = 1 /\ wire[1][1] = courses
  /\ cstep = "back" =>
       wire # None /\ Len(wire[1]) = 1 /\ courses = wire[1][1]

C6_Witness ==
  /\ cstep = "back"
  /\ courses = <<"courseB", "courseA", "courseB">>

\* The value of the content attribute on a line: the text between the quote
\* that follows `content=` and the next quote.
QuotedValue(line) ==
  LET start == Find(line, CONTENT_EQ)[1] + Len(CONTENT_EQ) + 2
      close == CHOOSE k \in start..Len(line) :
                 line[k] = "\"" /\ \A m \in start..(k - 1) : line[m] # "\""
  IN SubSeq(line, start, close - 1)

\* The first line of the page in resp that holds the meta marker.
MarkerLine ==
  resp.body.lines[CHOOSE i \in 1..Len(resp.body.lines) :
    /\ Contains(resp.body.lines[i], META_MARKER)
    /\ \A j \in 1..(i - 1) : ~Contains(resp.body.lines[j], META_MARKER)]

\* The last response is an HTML page with a marker line that has a content
\* attribute.
PageHasPointer ==
  /\ called = "parse"
  /\ resp.kind = "body"
  /\ resp.body.kind = "html"
  /\ \E i \in 1..Len(resp.body.lines) : Contains(resp.body.lines[i], META_MARKER)
  /\ Contains(MarkerLine, CONTENT_EQ)

\* C7: on the Html path, once a page with the marker and a content attribute
\* has arrived, the url fetched next is the quoted value: as it is when
\* absolute, after the entry url's base path when relative.
C7_HeaderUrlIsQuotedValue ==
  (PageHasPointer /\ Contains(url, SLASH)) =>
    /\ pc = "header"
    /\ Len(fetched) = 2
    /\ fetched[2] = IF StartsWith(QuotedValue(MarkerLine), HTTP)
                    THEN QuotedValue(MarkerLine)
                    ELSE UrlPrefix(url)[1] \o QuotedValue(MarkerLine)

\* The header document arrived with an empty body: the response to the entry
\* url on the Json path, the response to the second fetch on the Html path.
HeaderBodyEmpty ==
  /\ called = "parse"
  /\ resp = Fetched(EmptyBody)
  /\ pc = "done"
  /\ Len(fetched) = FetchesBeforeContent

\* C8: an empty header body fails with CorruptedHeaderData("Get nothing from
\* <url>") for the url of the header document, on both paths.
C8_EmptyHeaderIsCorruptedHeader ==
  HeaderBodyEmpty =>
    result = Err(CorruptedHeaderData, "Get nothing from", fetched[Len(fetched)])

\* C10: no call ends in a panic.
C10_NeverPanics == result.kind # "panic"

\* The fetches of a call are at most the entry url, then the header url on the
\* Html path, then the data_url, in that order.
FetchOrder ==
  /\ called' = "parse" =>
       /\ Len(fetched') <= FetchesBeforeContent' + 1
       /\ Len(fetched') >= 1 => fetched'[1] = url'
       /\ pc' = "entry" => Len(fetched') = 1
       /\ pc' = "header" => Len(fetched') = 2 /\ ~EndsWith(url', JSON_SUFFIX)
  /\ called' = "parse_from_json" => Len(fetched') <= 1
  /\ pc' = "content" =>
       /\ Len(fetched') = FetchesBeforeContent' + 1
       /\ fetched'[Len(fetched')] = header'.data_url

\* The text handed to the header deserialization in this step, if any.
HeaderTextIsGarbage ==
  /\ data' # data
  /\ data'.kind \in {"garbage", "array"}

\* The text handed to the content deserialization in this step is no array of
\* entries.
ContentTextIsGarbage ==
  /\ pc = "content"
  /\ resp'.kind = "body"
  /\ resp'.body.kind \in {"garbage", "object"}

\* The fetch this step waited for failed.
FetchFailed == pc \in {"entry", "header", "content"} /\ resp'.kind # "body"

\* One step of a call, as C9 has it.
C9Step ==
  /\ fetched' = fetched \/ (Len(fetched') = Len(fetched) + 1 /\ SubSeq(fetched', 1, Len(fetched)) = fetched)
  /\ FetchOrder
  /\ result.kind # "none" => vars' = vars
  /\ result'.kind \in {"err", "panic"} => fetched' = fetched /\ pc' = "done" /\ result'.table = NoTable
  /\ FetchFailed =>
       /\ result'.kind = "err"
       /\ result'.err = IF resp'.kind = "reqwest_err" THEN ReqwestError ELSE IOError
  /\ (HeaderTextIsGarbage \/ ContentTextIsGarbage) =>
       /\ result'.kind = "err"
       /\ result'.err = SerdeError

\* C9: fetches happen in the order entry url, header url (Html path), data_url,
\* each at most once; the step that fails returns its own error kind, performs
\* no fetch, returns no table, and nothing happens after a return: a failed
\* fetch gives the transport error, text that is no JSON of the expected shape
\* gives the deserialization error.
C9_FirstFailureReturned == [][C9Step]_vars

C9_Witness ==
  /\ called = "parse"
  /\ Len(fetched) = 3
  /\ resp.kind = "reqwest_err"
  /\ result = Err(ReqwestError, "", <<>>)
====
